---- MODULE Spec2Model ----
(***************************************************************************)
(* Smart Video Speed Controller: the SRT catalog builder                   *)
(* (src/src/subtitle_parser.py), the segment scheduler and the processing  *)
(* pipeline (src/src/processor.py) and the command line entry              *)
(* (src/src/cli.py).                                                       *)
(*                                                                         *)
(* Times are held in ticks of half a second, so the default buffer of 0.5  *)
(* is one tick.  The scheduler only adds, subtracts, compares and takes    *)
(* max/min of times, all of which are exact on ticks.  Speeds are held in  *)
(* halves as well (2 is 1.0x, 4 is 2.0x, 1 is 0.5x).                       *)
(*                                                                         *)
(* An SRT text is held after the splits the parser performs on it: a text  *)
(* is the sequence of its blocks (split on the block delimiter), a block   *)
(* the sequence of its lines, a line the sequence of its fields (split on  *)
(* ' --> '), a field the sequence of its components (split on ':').  A     *)
(* component is a token [k, v]: k says how the token is written ("int":    *)
(* digits, "dot": digits with '.', "comma": digits with ',', "word":       *)
(* anything float() rejects) and v is its value in halves (the identity    *)
(* of the word for "word").                                                *)
(***************************************************************************)
EXTENDS Integers, Sequences, FiniteSets, TLC

VARIABLES
    pc,                  \* where the run stands
    args,                \* the parsed command line (cli.py)
    speed_no_subtitle,   \* self.speed_no_subtitle
    speed_with_subtitle, \* self.speed_with_subtitle
    subtitle_buffer,     \* self.subtitle_buffer
    media,               \* the input file as the external tools report it
    subtitles,           \* the catalog (List[SubtitleSegment])
    video_duration,      \* result of _get_video_duration
    segments,            \* the list built by _create_video_segments
    current_time,        \* the sweep cursor of _create_video_segments
    sub_idx,             \* position of the for loop over subtitles
    output_duration,     \* sum computed by _print_segment_info
    segment_files,       \* clips rendered so far (_process_segments)
    concat_list,         \* entries written by _write_concat_file
    error,               \* the exception that ended the run, "" if none
    exit_status,         \* process exit status, -1 while running
    render_calls,        \* the calls of FFmpegWrapper.process_video_segment made
    concat_calls,        \* number of calls of FFmpegWrapper.concatenate_videos
    legacy_segments,     \* the list built by main.py's _create_video_segments
    time_arg,            \* argument of a call of _parse_srt_time on its own
    time_result          \* what that call returned or raised

vars == <<pc, args, speed_no_subtitle, speed_with_subtitle, subtitle_buffer,
          media, subtitles, video_duration, segments, current_time, sub_idx,
          output_duration, segment_files, concat_list, error, exit_status,
          render_calls, concat_calls, legacy_segments, time_arg, time_result>>

\* the variables only a call of _parse_srt_time on its own touches
time_vars == <<time_arg, time_result>>
\* the variables only the rendering stage touches
render_vars == <<render_calls, concat_calls>>

(***************************************************************************)
(* Bounds of the model.                                                    *)
(***************************************************************************)
MaxBlocks == 3          \* blocks in an SRT text given to the parser
MaxSubs == 2            \* subtitles in a catalog given to the scheduler
MaxTime == 4            \* largest subtitle time given to the scheduler, in ticks
MaxDuration == 3        \* largest video duration given to the scheduler, in ticks
MaxBuffer == 1          \* largest subtitle buffer given to the scheduler, in ticks
MaxPipelineBlocks == 2  \* blocks in the SRT track of a file given to the pipeline
MaxComponents == 4      \* colon-separated components of a time string

(***************************************************************************)
(* config.py                                                               *)
(***************************************************************************)
MIN_SRT_LINES == 3
SECONDS_PER_HOUR == 3600
SECONDS_PER_MINUTE == 60

(***************************************************************************)
(* Results of calls that may raise.                                        *)
(***************************************************************************)
Ok(v) == [ok |-> TRUE, val |-> v, exc |-> ""]
Raise(e) == [ok |-> FALSE, val |-> <<>>, exc |-> e]

\* Optional[SubtitleSegment]: None is the empty sequence, a value a singleton.
None == <<>>
Some(x) == <<x>>

Max(a, b) == IF a >= b THEN a ELSE b
Min(a, b) == IF a <= b THEN a ELSE b

(***************************************************************************)
(* models.py                                                               *)
(***************************************************************************)
SubtitleSegment(start_time, end_time, text) ==
    [start_time |-> start_time, end_time |-> end_time, text |-> text]

VideoSegment(start_time, end_time, speed, has_subtitle) ==
    [start_time |-> start_time, end_time |-> end_time, speed |-> speed,
     has_subtitle |-> has_subtitle]

\* VideoSegment.duration
duration(seg) == seg.end_time - seg.start_time

(***************************************************************************)
(* subtitle_parser.py                                                      *)
(***************************************************************************)
\* time_str.replace(',', '.') on one component
ReplaceComma(c) == IF c.k = "comma" THEN [c EXCEPT !.k = "dot"] ELSE c

\* float(x) succeeds on digits and on digits with a '.'
FloatOk(c) == c.k \in {"int", "dot"}

_parse_srt_time(time_str) ==
    LET parts == [i \in 1..Len(time_str) |-> ReplaceComma(time_str[i])]
    IN  IF Len(parts) # 3
        THEN Raise("ValueError")
        ELSE IF \E i \in 1..3 : ~FloatOk(parts[i])
             THEN Raise("ValueError")
             ELSE Ok(parts[1].v * SECONDS_PER_HOUR
                     + parts[2].v * SECONDS_PER_MINUTE
                     + parts[3].v)

\* the variant that swallows a bad timing line instead of raising
_parse_srt_block_lenient(block) ==
    LET lines == block
    IN  IF Len(lines) < MIN_SRT_LINES
        THEN Ok(None)
        ELSE LET timing_line == lines[2]
             IN  IF Len(timing_line) = 1
                 THEN Ok(None)
                 ELSE IF Len(timing_line) # 2
                      THEN Ok(None)
                      ELSE LET s == _parse_srt_time(timing_line[1])
                               e == _parse_srt_time(timing_line[2])
                           IN  IF ~s.ok \/ ~e.ok
                               THEN Ok(None)
                               ELSE Ok(Some(SubtitleSegment(s.val, e.val,
                                            SubSeq(lines, 3, Len(lines)))))

\* the variant that treats a short or delimiter-less block as an error
_parse_srt_block_strict(block) ==
    LET lines == block
    IN  IF Len(lines) < MIN_SRT_LINES
        THEN Raise("SubtitleExtractionError")
        ELSE LET timing_line == lines[2]
             IN  IF Len(timing_line) # 2
                 THEN Raise("SubtitleExtractionError")
                 ELSE LET s == _parse_srt_time(timing_line[1])
                          e == _parse_srt_time(timing_line[2])
                      IN  IF ~s.ok \/ ~e.ok
                          THEN Raise("SubtitleExtractionError")
                          ELSE Ok(Some(SubtitleSegment(s.val, e.val,
                                       SubSeq(lines, 3, Len(lines)))))

\* Len(timing_line) = 1 is "SRT_TIME_DELIMITER not in timing_line"; a timing
\* line of three or more fields fails the two-name unpacking with ValueError.
_parse_srt_block(block) ==
    LET lines == block
    IN  IF Len(lines) < MIN_SRT_LINES
        THEN Ok(None)
        ELSE LET timing_line == lines[2]
             IN  IF Len(timing_line) = 1
                 THEN Ok(None)
                 ELSE IF Len(timing_line) # 2
                      THEN Raise("SubtitleExtractionError")
                      ELSE LET s == _parse_srt_time(timing_line[1])
                               e == _parse_srt_time(timing_line[2])
                           IN  IF ~s.ok \/ ~e.ok
                               THEN Raise("SubtitleExtractionError")
                               ELSE Ok(Some(SubtitleSegment(s.val, e.val,
                                            SubSeq(lines, 3, Len(lines)))))

\* sorted(..., key=start_time) that puts an element before its equals
RECURSIVE sorted_unstable(_)
sorted_unstable(s) ==
    IF s = <<>>
    THEN <<>>
    ELSE LET x == s[Len(s)]
             t == sorted_unstable(SubSeq(s, 1, Len(s) - 1))
             p == Cardinality({i \in 1..Len(t) : t[i].start_time < x.start_time})
         IN  SubSeq(t, 1, p) \o <<x>> \o SubSeq(t, p + 1, Len(t))

\* sorted(subtitles, key=lambda x: x.start_time): Python's sort is stable
RECURSIVE sorted(_)
sorted(s) ==
    IF s = <<>>
    THEN <<>>
    ELSE LET x == s[Len(s)]
             t == sorted(SubSeq(s, 1, Len(s) - 1))
             p == Cardinality({i \in 1..Len(t) : t[i].start_time <= x.start_time})
         IN  SubSeq(t, 1, p) \o <<x>> \o SubSeq(t, p + 1, Len(t))

\* content.strip().split(SRT_BLOCK_DELIMITER): an empty text is one empty block
EmptyBlock == << << <<[k |-> "word", v |-> 0]>> >> >>
SplitBlocks(content) == IF content = <<>> THEN <<EmptyBlock>> ELSE content

\* the for loop of parse_srt_file
RECURSIVE ParseBlocks(_, _)
ParseBlocks(blocks, acc) ==
    IF blocks = <<>>
    THEN Ok(acc)
    ELSE LET subtitle == _parse_srt_block(Head(blocks))
         IN  IF ~subtitle.ok
             THEN subtitle
             ELSE ParseBlocks(Tail(blocks), acc \o subtitle.val)

parse_srt_file(content) ==
    LET r == ParseBlocks(SplitBlocks(content), <<>>)
    IN  IF r.ok THEN Ok(sorted(r.val)) ELSE Raise("SubtitleExtractionError")

(***************************************************************************)
(* processor.py: the segment scheduler                                     *)
(***************************************************************************)
\* the padded start without the clamp at 0
_calculate_subtitle_start_unclamped(subtitle_start) ==
    subtitle_start - subtitle_buffer

_calculate_subtitle_start(subtitle_start) ==
    Max(0, subtitle_start - subtitle_buffer)

\* the padded end without the clamp at the video duration
_calculate_subtitle_end_unclamped(subtitle_end, duration_of_video) ==
    subtitle_end + subtitle_buffer

_calculate_subtitle_end(subtitle_end, duration_of_video) ==
    Min(duration_of_video, subtitle_end + subtitle_buffer)

_create_non_subtitle_segment(start, end) ==
    VideoSegment(start, end, speed_no_subtitle, FALSE)

\* a with-subtitle segment that is given the no-subtitle speed
_create_subtitle_segment_fast(start, end) ==
    VideoSegment(start, end, speed_no_subtitle, TRUE)

_create_subtitle_segment(start, end) ==
    VideoSegment(start, end, speed_with_subtitle, TRUE)

\* Speeds are in halves and times in ticks; output durations are held in
\* quarters of a tick, which makes the quotient exact for the speeds used.
OneX == 2
OutputUnit == 4

\* VideoSegment.output_duration
output_duration_of(seg) == (duration(seg) * OneX * OutputUnit) \div seg.speed

\* sum(seg.output_duration for seg in segments)
RECURSIVE SumOutputDuration(_)
SumOutputDuration(segs) ==
    IF segs = <<>>
    THEN 0
    ELSE output_duration_of(Head(segs)) + SumOutputDuration(Tail(segs))

\* _create_video_segments, lines 102-103
StartSweep ==
    /\ pc = "segments"
    /\ segments' = <<>>
    /\ current_time' = 0
    /\ sub_idx' = 1
    /\ pc' = "sweep"
    /\ UNCHANGED <<args, speed_no_subtitle, speed_with_subtitle,
                   subtitle_buffer, media, subtitles, video_duration,
                   output_duration, segment_files, concat_list, error,
                   exit_status>>
    /\ UNCHANGED <<render_vars, legacy_segments, time_vars>>

\* one iteration of the for loop of _create_video_segments, lines 105-115
SweepStep ==
    /\ pc = "sweep"
    /\ sub_idx <= Len(subtitles)
    /\ LET subtitle == subtitles[sub_idx]
           sub_start == _calculate_subtitle_start(subtitle.start_time)
           sub_end == _calculate_subtitle_end(subtitle.end_time, video_duration)
           before == IF current_time < sub_start
                     THEN Append(segments,
                                 _create_non_subtitle_segment(current_time, sub_start))
                     ELSE segments
       IN  /\ segments' = Append(before, _create_subtitle_segment(sub_start, sub_end))
           /\ current_time' = sub_end
    /\ sub_idx' = sub_idx + 1
    /\ UNCHANGED <<pc, args, speed_no_subtitle, speed_with_subtitle,
                   subtitle_buffer, media, subtitles, video_duration,
                   output_duration, segment_files, concat_list, error,
                   exit_status>>
    /\ UNCHANGED <<render_vars, legacy_segments, time_vars>>

\* the end of the sweep without the trailing no-subtitle segment
SweepFinish_NoTail ==
    /\ pc = "sweep"
    /\ sub_idx > Len(subtitles)
    /\ pc' = "info"
    /\ UNCHANGED <<args, speed_no_subtitle, speed_with_subtitle,
                   subtitle_buffer, media, subtitles, video_duration,
                   segments, current_time, sub_idx, output_duration,
                   segment_files, concat_list, error, exit_status>>
    /\ UNCHANGED <<render_vars, legacy_segments, time_vars>>

\* the end of _create_video_segments, lines 117-120
SweepFinish ==
    /\ pc = "sweep"
    /\ sub_idx > Len(subtitles)
    /\ segments' = IF current_time < video_duration
                   THEN Append(segments,
                               _create_non_subtitle_segment(current_time, video_duration))
                   ELSE segments
    /\ pc' = "info"
    /\ UNCHANGED <<args, speed_no_subtitle, speed_with_subtitle,
                   subtitle_buffer, media, subtitles, video_duration,
                   current_time, sub_idx, output_duration, segment_files,
                   concat_list, error, exit_status>>
    /\ UNCHANGED <<render_vars, legacy_segments, time_vars>>

\* _print_segment_info: the division by video_duration raises
\* ZeroDivisionError when the duration is 0, which process() turns into exit 1
PrintSegmentInfo ==
    /\ pc = "info"
    /\ output_duration' = SumOutputDuration(segments)
    /\ IF video_duration = 0
       THEN /\ error' = "ZeroDivisionError"
            /\ exit_status' = 1
            /\ pc' = "exit"
       ELSE /\ pc' = "render"
            /\ UNCHANGED <<error, exit_status>>
    /\ UNCHANGED <<args, speed_no_subtitle, speed_with_subtitle,
                   subtitle_buffer, media, subtitles, video_duration,
                   segments, current_time, sub_idx, segment_files,
                   concat_list>>
    /\ UNCHANGED <<render_vars, legacy_segments, time_vars>>

(***************************************************************************)
(* main.py: the scheduler of the single-file version                       *)
(***************************************************************************)
\* the for loop and the tail of main.py's _create_video_segments, lines
\* 177-199, on the subtitles still to visit
RECURSIVE LegacySweep(_, _, _, _)
LegacySweep(subs, duration_of_video, segs, now) ==
    IF subs = <<>>
    THEN IF now < duration_of_video
         THEN Append(segs, VideoSegment(now, duration_of_video,
                                        speed_no_subtitle, FALSE))
         ELSE segs
    ELSE LET subtitle == Head(subs)
             sub_start == Max(0, subtitle.start_time - subtitle_buffer)
             sub_end == Min(duration_of_video,
                            subtitle.end_time + subtitle_buffer)
             before == IF now < sub_start
                       THEN Append(segs, VideoSegment(now, sub_start,
                                                      speed_no_subtitle, FALSE))
                       ELSE segs
         IN  LegacySweep(Tail(subs), duration_of_video,
                         Append(before, VideoSegment(sub_start, sub_end,
                                                     speed_with_subtitle, TRUE)),
                         sub_end)

\* main.py's VideoSpeedProcessor._create_video_segments
legacy_create_video_segments(subs, duration_of_video) ==
    LegacySweep(subs, duration_of_video, <<>>, 0)

\* a call of main.py's _create_video_segments on the same processor fields,
\* catalog and duration, made before the call of processor.py's
LegacyCreateVideoSegments ==
    /\ pc = "legacy"
    /\ legacy_segments' = legacy_create_video_segments(subtitles, video_duration)
    /\ pc' = "segments"
    /\ UNCHANGED <<args, speed_no_subtitle, speed_with_subtitle,
                   subtitle_buffer, media, subtitles, video_duration,
                   segments, current_time, sub_idx, output_duration,
                   segment_files, concat_list, error, exit_status>>
    /\ UNCHANGED <<render_vars, time_vars>>

(***************************************************************************)
(* cli.py and processor.py: the pipeline                                   *)
(***************************************************************************)
\* every way a run ends in sys.exit(1)
Fail(e) ==
    /\ error' = e
    /\ exit_status' = 1
    /\ pc' = "exit"

\* ArgumentParser.validate_arguments, called by cli.main
ValidateArguments ==
    /\ pc = "main"
    /\ IF args.speed_no_sub <= 0 \/ args.speed_with_sub <= 0
       THEN Fail("ValidationError")
       ELSE IF args.buffer < 0
            THEN Fail("ValidationError")
            ELSE /\ pc' = "init"
                 /\ UNCHANGED <<error, exit_status>>
    /\ UNCHANGED <<args, speed_no_subtitle, speed_with_subtitle,
                   subtitle_buffer, media, subtitles, video_duration,
                   segments, current_time, sub_idx, output_duration,
                   segment_files, concat_list>>
    /\ UNCHANGED <<render_vars, legacy_segments, time_vars>>

\* VideoSpeedProcessor._validate_inputs on the fields __init__ has just set;
\* whether the input file exists and FFmpeg is installed is the environment's
_validate_inputs(exists, installed) ==
    IF ~exists
    THEN Fail("FileNotFoundError")
    ELSE IF ~installed
         THEN Fail("RuntimeError")
         ELSE IF speed_no_subtitle' <= 0 \/ speed_with_subtitle' <= 0
              THEN Fail("ValidationError")
              ELSE IF subtitle_buffer' < 0
                   THEN Fail("ValidationError")
                   ELSE /\ pc' = "extract"
                        /\ UNCHANGED <<error, exit_status>>

\* VideoSpeedProcessor.__init__, called by cli.main
Construct ==
    /\ pc = "init"
    /\ speed_no_subtitle' = args.speed_no_sub
    /\ speed_with_subtitle' = args.speed_with_sub
    /\ subtitle_buffer' = args.buffer
    /\ \E exists \in BOOLEAN, installed \in BOOLEAN :
           _validate_inputs(exists, installed)
    /\ UNCHANGED <<args, media, subtitles, video_duration, segments,
                   current_time, sub_idx, output_duration, segment_files,
                   concat_list>>
    /\ UNCHANGED <<render_vars, legacy_segments, time_vars>>

\* VideoSpeedProcessor._extract_subtitles; ffprobe and the SRT extraction are
\* external and may fail
_extract_subtitles(probe_ok, extract_ok) ==
    IF ~probe_ok
    THEN Raise("SubtitleExtractionError")
    ELSE IF ~media.has_subtitle
         THEN Ok(<<>>)
         ELSE IF ~extract_ok
              THEN Raise("SubtitleExtractionError")
              ELSE LET r == parse_srt_file(media.srt)
                   IN  IF r.ok THEN r ELSE Raise("SubtitleExtractionError")

ExtractSubtitles ==
    /\ pc = "extract"
    /\ \E probe_ok \in BOOLEAN, extract_ok \in BOOLEAN :
           LET r == _extract_subtitles(probe_ok, extract_ok)
           IN  IF r.ok
               THEN /\ subtitles' = r.val
                    /\ pc' = "duration"
                    /\ UNCHANGED <<error, exit_status>>
               ELSE /\ Fail(r.exc)
                    /\ UNCHANGED subtitles
    /\ UNCHANGED <<args, speed_no_subtitle, speed_with_subtitle,
                   subtitle_buffer, media, video_duration, segments,
                   current_time, sub_idx, output_duration, segment_files,
                   concat_list>>
    /\ UNCHANGED <<render_vars, legacy_segments, time_vars>>

\* VideoSpeedProcessor._get_video_duration followed by _print_video_info
GetVideoDuration ==
    /\ pc = "duration"
    /\ \E probe_ok \in BOOLEAN :
           IF probe_ok
           THEN /\ video_duration' = media.duration
                /\ pc' = "segments"
                /\ UNCHANGED <<error, exit_status>>
           ELSE /\ Fail("VideoProcessingError")
                /\ UNCHANGED video_duration
    /\ UNCHANGED <<args, speed_no_subtitle, speed_with_subtitle,
                   subtitle_buffer, media, subtitles, segments, current_time,
                   sub_idx, output_duration, segment_files, concat_list>>
    /\ UNCHANGED <<render_vars, legacy_segments, time_vars>>

\* FFmpegWrapper.process_video_segment without check=True: a failed ffmpeg
\* run goes unnoticed
process_video_segment_unchecked(ffmpeg_ok) == Ok(<<>>)

\* FFmpegWrapper.process_video_segment: subprocess.run(..., check=True)
process_video_segment(ffmpeg_ok) ==
    IF ffmpeg_ok THEN Ok(<<>>) ELSE Raise("VideoProcessingError")

\* FFmpegWrapper.concatenate_videos: subprocess.run(..., check=True)
concatenate_videos(ffmpeg_ok) ==
    IF ffmpeg_ok THEN Ok(<<>>) ELSE Raise("VideoProcessingError")

\* the clip asked for with the segment's end time in place of its duration
render_request_until_end(i, segment) ==
    [index |-> i,
     start_time |-> segment.start_time,
     duration |-> segment.end_time,
     speed |-> segment.speed,
     has_subtitle |-> segment.has_subtitle]

\* what _process_single_segment asks of FFmpegWrapper.process_video_segment
\* for segment i: the output file segment_{i:04d}.mkv, -ss start_time,
\* -t duration, the speed and the subtitle flag
render_request(i, segment) ==
    [index |-> i,
     start_time |-> segment.start_time,
     duration |-> duration(segment),
     speed |-> segment.speed,
     has_subtitle |-> segment.has_subtitle]

\* one iteration of _process_segments: _process_single_segment renders clip i
ProcessSingleSegment ==
    /\ pc = "render"
    /\ Len(segment_files) < Len(segments)
    /\ LET i == Len(segment_files)
           request == render_request(i, segments[i + 1])
       IN  \E ffmpeg_ok \in BOOLEAN :
               LET r == process_video_segment(ffmpeg_ok)
               IN  /\ render_calls' =
                          Append(render_calls,
                                 [request |-> request, ok |-> ffmpeg_ok])
                   /\ IF r.ok
                      THEN /\ segment_files' = Append(segment_files, request)
                           /\ UNCHANGED <<pc, error, exit_status>>
                      ELSE /\ Fail(r.exc)
                           /\ UNCHANGED segment_files
    /\ UNCHANGED <<args, speed_no_subtitle, speed_with_subtitle,
                   subtitle_buffer, media, subtitles, video_duration,
                   segments, current_time, sub_idx, output_duration,
                   concat_list>>
    /\ UNCHANGED <<concat_calls, legacy_segments, time_vars>>

\* _concat_segments once _process_segments has returned, then "Completed!"
ConcatSegments ==
    /\ pc = "render"
    /\ Len(segment_files) = Len(segments)
    /\ concat_list' = [i \in 1..Len(segment_files) |-> segment_files[i].index]
    /\ concat_calls' = concat_calls + 1
    /\ \E ffmpeg_ok \in BOOLEAN :
           LET r == concatenate_videos(ffmpeg_ok)
           IN  IF r.ok
               THEN /\ pc' = "done"
                    /\ exit_status' = 0
                    /\ UNCHANGED error
               ELSE Fail(r.exc)
    /\ UNCHANGED <<args, speed_no_subtitle, speed_with_subtitle,
                   subtitle_buffer, media, subtitles, video_duration,
                   segments, current_time, sub_idx, output_duration,
                   segment_files>>
    /\ UNCHANGED <<render_calls, legacy_segments, time_vars>>

\* SubtitleParser.parse_srt_file called on its own
ParseSrtFile ==
    /\ pc = "parse"
    /\ LET r == parse_srt_file(media.srt)
       IN  /\ subtitles' = r.val
           /\ error' = r.exc
    /\ pc' = "parsed"
    /\ UNCHANGED <<args, speed_no_subtitle, speed_with_subtitle,
                   subtitle_buffer, media, video_duration, segments,
                   current_time, sub_idx, output_duration, segment_files,
                   concat_list, exit_status>>
    /\ UNCHANGED <<render_vars, legacy_segments, time_vars>>

\* SubtitleParser._parse_srt_time called on its own
ParseSrtTime ==
    /\ pc = "time"
    /\ time_result' = _parse_srt_time(time_arg)
    /\ pc' = "timed"
    /\ UNCHANGED <<args, speed_no_subtitle, speed_with_subtitle,
                   subtitle_buffer, media, subtitles, video_duration,
                   segments, current_time, sub_idx, output_duration,
                   segment_files, concat_list, error, exit_status>>
    /\ UNCHANGED <<render_vars, legacy_segments, time_arg>>

(***************************************************************************)
(* Inputs                                                                  *)
(***************************************************************************)
Tok(k, v) == [k |-> k, v |-> v]

\* "00:00:SS,mmm" with the seconds worth v ticks
Stamp(v) == <<Tok("int", 0), Tok("int", 0), Tok("comma", v)>>
\* "01:01:00.500"
LongStamp == <<Tok("int", 2), Tok("int", 2), Tok("dot", 1)>>
\* "bad", "00:00" and "00:00:xx"
BadStampWord == <<Tok("word", 1)>>
BadStampShort == <<Tok("int", 0), Tok("int", 0)>>
BadStampSeconds == <<Tok("int", 0), Tok("int", 0), Tok("word", 1)>>

IndexLine == << <<Tok("int", 2)>> >>
TextLine(id) == << <<Tok("word", id)>> >>
Cue(s, e, id) == <<IndexLine, <<s, e>>, TextLine(id)>>

SeqsUpTo(S, n) == UNION {[1..m -> S] : m \in 0..n}

SrtBlocks ==
    {Cue(Stamp(s), Stamp(e), 1) : s \in 0..2, e \in 0..2}
    \cup {Cue(Stamp(0), LongStamp, 1),
          Cue(BadStampWord, Stamp(1), 1),
          Cue(Stamp(0), BadStampShort, 1),
          Cue(Stamp(1), BadStampSeconds, 1),
          <<IndexLine, <<Stamp(0), BadStampWord>> >>,
          <<IndexLine, TextLine(1), TextLine(2)>>,
          <<IndexLine, <<Stamp(0), Stamp(1), Stamp(2)>>, TextLine(1)>>,
          <<IndexLine, <<Stamp(1), Stamp(2)>>, TextLine(1), TextLine(2)>>}

PipelineBlocks ==
    {Cue(Stamp(0), Stamp(2), 1),
     Cue(Stamp(1), Stamp(2), 1),
     Cue(Stamp(3), Stamp(4), 1),
     Cue(Stamp(6), Stamp(7), 1),
     Cue(BadStampWord, Stamp(1), 1),
     <<IndexLine, <<Stamp(0), Stamp(1)>> >>}

CliSpeeds == {-2, 0, 2, 4}
CliBuffers == {-1, 0, 1}
ProbedDurations == {-2, 0, 3, 5}
SchedSpeeds == {1, 2, 4}

NoMedia == [has_subtitle |-> FALSE, srt |-> <<>>, duration |-> 0]
NoArgs == [speed_no_sub |-> 0, speed_with_sub |-> 0, buffer |-> 0]

MediaFiles ==
    {[has_subtitle |-> FALSE, srt |-> <<>>, duration |-> d] : d \in ProbedDurations}
    \cup {[has_subtitle |-> TRUE, srt |-> t, duration |-> d] :
              t \in SeqsUpTo(PipelineBlocks, MaxPipelineBlocks),
              d \in ProbedDurations}

Intervals ==
    {SubtitleSegment(s, e, <<>>) : s \in 0..MaxTime, e \in 0..MaxTime}

IsSortedByStart(s) ==
    \A i \in 1..Len(s), j \in 1..Len(s) :
        i < j => s[i].start_time <= s[j].start_time

ValidInterval(x) == 0 <= x.start_time /\ x.start_time < x.end_time

Catalogs ==
    {c \in SeqsUpTo({x \in Intervals : ValidInterval(x)}, MaxSubs) :
        IsSortedByStart(c)}

(***************************************************************************)
(* Specifications                                                          *)
(***************************************************************************)
\* a run of cli.main on a command line and an input file
Init ==
    /\ pc = "main"
    /\ args \in [speed_no_sub : CliSpeeds, speed_with_sub : CliSpeeds,
                 buffer : CliBuffers]
    /\ media \in MediaFiles
    /\ speed_no_subtitle = 0
    /\ speed_with_subtitle = 0
    /\ subtitle_buffer = 0
    /\ subtitles = <<>>
    /\ video_duration = 0
    /\ segments = <<>>
    /\ current_time = 0
    /\ sub_idx = 1
    /\ output_duration = 0
    /\ segment_files = <<>>
    /\ concat_list = <<>>
    /\ error = ""
    /\ exit_status = -1
    /\ render_calls = <<>>
    /\ concat_calls = 0
    /\ legacy_segments = <<>>
    /\ time_arg = <<>>
    /\ time_result = Ok(0)

Next ==
    \/ ValidateArguments
    \/ Construct
    \/ ExtractSubtitles
    \/ GetVideoDuration
    \/ StartSweep
    \/ SweepStep
    \/ SweepFinish
    \/ PrintSegmentInfo
    \/ ProcessSingleSegment
    \/ ConcatSegments

Spec == Init /\ [][Next]_vars

\* _create_video_segments and _print_segment_info of a constructed processor
\* on a catalog and a positive duration
InitSched ==
    /\ pc = "segments"
    /\ speed_no_subtitle \in SchedSpeeds
    /\ speed_with_subtitle \in SchedSpeeds
    /\ subtitle_buffer \in 0..MaxBuffer
    /\ subtitles \in Catalogs
    /\ video_duration \in 1..MaxDuration
    /\ args = NoArgs
    /\ media = NoMedia
    /\ segments = <<>>
    /\ current_time = 0
    /\ sub_idx = 1
    /\ output_duration = 0
    /\ segment_files = <<>>
    /\ concat_list = <<>>
    /\ error = ""
    /\ exit_status = -1
    /\ render_calls = <<>>
    /\ concat_calls = 0
    /\ legacy_segments = <<>>
    /\ time_arg = <<>>
    /\ time_result = Ok(0)

NextSched ==
    \/ StartSweep
    \/ SweepStep
    \/ SweepFinish
    \/ PrintSegmentInfo

SpecSched == InitSched /\ [][NextSched]_vars

\* SubtitleParser.parse_srt_file on an SRT text
InitParse ==
    /\ pc = "parse"
    /\ media \in {[has_subtitle |-> TRUE, srt |-> t, duration |-> 0] :
                      t \in SeqsUpTo(SrtBlocks, MaxBlocks)}
    /\ args = NoArgs
    /\ speed_no_subtitle = 0
    /\ speed_with_subtitle = 0
    /\ subtitle_buffer = 0
    /\ subtitles = <<>>
    /\ video_duration = 0
    /\ segments = <<>>
    /\ current_time = 0
    /\ sub_idx = 1
    /\ output_duration = 0
    /\ segment_files = <<>>
    /\ concat_list = <<>>
    /\ error = ""
    /\ exit_status = -1
    /\ render_calls = <<>>
    /\ concat_calls = 0
    /\ legacy_segments = <<>>
    /\ time_arg = <<>>
    /\ time_result = Ok(0)

NextParse == ParseSrtFile

SpecParse == InitParse /\ [][NextParse]_vars

\* components a time string is made of: "-1", "00", "01", "00.500",
\* "01,500" and "xx"
TimeTokens ==
    {Tok("int", -2), Tok("int", 0), Tok("int", 2), Tok("dot", 1),
     Tok("comma", 3), Tok("word", 1)}

\* str.split(':') never returns an empty list
TimeStrings == SeqsUpTo(TimeTokens, MaxComponents) \ {<<>>}

\* SubtitleParser._parse_srt_time on a time string
InitTime ==
    /\ pc = "time"
    /\ time_arg \in TimeStrings
    /\ time_result = Ok(0)
    /\ args = NoArgs
    /\ media = NoMedia
    /\ speed_no_subtitle = 0
    /\ speed_with_subtitle = 0
    /\ subtitle_buffer = 0
    /\ subtitles = <<>>
    /\ video_duration = 0
    /\ segments = <<>>
    /\ current_time = 0
    /\ sub_idx = 1
    /\ output_duration = 0
    /\ segment_files = <<>>
    /\ concat_list = <<>>
    /\ error = ""
    /\ exit_status = -1
    /\ render_calls = <<>>
    /\ concat_calls = 0
    /\ legacy_segments = <<>>

NextTime == ParseSrtTime

SpecTime == InitTime /\ [][NextTime]_vars

\* both schedulers on one catalog, buffer, duration (positive or not) and
\* pair of speeds
InitEquiv ==
    /\ pc = "legacy"
    /\ speed_no_subtitle \in SchedSpeeds
    /\ speed_with_subtitle \in SchedSpeeds
    /\ subtitle_buffer \in 0..MaxBuffer
    /\ subtitles \in Catalogs
    /\ video_duration \in (-1)..MaxDuration
    /\ args = NoArgs
    /\ media = NoMedia
    /\ segments = <<>>
    /\ current_time = 0
    /\ sub_idx = 1
    /\ output_duration = 0
    /\ segment_files = <<>>
    /\ concat_list = <<>>
    /\ error = ""
    /\ exit_status = -1
    /\ render_calls = <<>>
    /\ concat_calls = 0
    /\ legacy_segments = <<>>
    /\ time_arg = <<>>
    /\ time_result = Ok(0)

NextEquiv ==
    \/ LegacyCreateVideoSegments
    \/ StartSweep
    \/ SweepStep
    \/ SweepFinish

SpecEquiv == InitEquiv /\ [][NextEquiv]_vars

(***************************************************************************)
(* Properties of the scheduler (SpecSched: valid sorted catalogs,          *)
(* buffer >= 0, duration > 0)                                              *)
(***************************************************************************)
\* the scheduler has returned its list
Scheduled == pc = "info"

\* C1: on return, every segment ends where the next one starts, so the
\* segments tile [0, D) with no gap and no overlap, also when padded windows
\* overlap or nest.
C1_ExactAdjacency ==
    Scheduled =>
        \A i \in 1..(Len(segments) - 1) :
            segments[i].end_time = segments[i + 1].start_time

\* C2: on return with D > 0 the list is non-empty, its first segment starts
\* at 0 and its last segment ends at D.
C2_CoversFromZeroToDuration ==
    Scheduled =>
        /\ Len(segments) > 0
        /\ segments[1].start_time = 0
        /\ segments[Len(segments)].end_time = video_duration

\* C2 witness: a two-subtitle catalog whose first window clamps to 0 and whose
\* last window clamps to D, so both ends of the list are with-subtitle segments
C2_Witness ==
    /\ Scheduled
    /\ Len(subtitles) = 2
    /\ subtitles[1].start_time < subtitle_buffer
    /\ subtitles[2].end_time > video_duration
    /\ segments[1].has_subtitle
    /\ segments[Len(segments)].has_subtitle

\* C3: every segment the scheduler returns has end > start; a subtitle whose
\* padded start is at or after D yields no segment.
C3_PositiveLength ==
    Scheduled =>
        \A i \in 1..Len(segments) :
            segments[i].end_time > segments[i].start_time

\* C6: the estimated output duration is at most D when both speeds are at
\* least 1.0x and equals D when both are 1.0x.
C6_OutputDurationBounded ==
    pc = "render" =>
        /\ (speed_no_subtitle >= OneX /\ speed_with_subtitle >= OneX)
               => output_duration <= video_duration * OutputUnit
        /\ (speed_no_subtitle = OneX /\ speed_with_subtitle = OneX)
               => output_duration = video_duration * OutputUnit

(***************************************************************************)
(* Properties of a run of the pipeline (Spec)                              *)
(***************************************************************************)
\* C4: every segment flagged has_subtitle carries speed_with_subtitle, every
\* other segment carries speed_no_subtitle, and every speed is positive.
C4_SpeedCorrect ==
    \A i \in 1..Len(segments) :
        /\ segments[i].speed = IF segments[i].has_subtitle
                               THEN speed_with_subtitle
                               ELSE speed_no_subtitle
        /\ segments[i].speed > 0

\* C4 witness: a returned list holding both kinds of segment, at different speeds
C4_Witness ==
    /\ pc = "info"
    /\ speed_no_subtitle # speed_with_subtitle
    /\ \E i \in 1..Len(segments) : segments[i].has_subtitle
    /\ \E i \in 1..Len(segments) : ~segments[i].has_subtitle

\* C5: for an empty catalog and D > 0 the scheduler returns the single
\* segment (0, D, speed_no_subtitle, no subtitle).
C5_EmptyCatalogSingleSegment ==
    (pc = "info" /\ subtitles = <<>> /\ video_duration > 0) =>
        segments = <<[start_time |-> 0, end_time |-> video_duration,
                      speed |-> speed_no_subtitle, has_subtitle |-> FALSE]>>

\* C5 witness: a file without a subtitle stream has been scheduled
C5_Witness ==
    /\ pc = "info"
    /\ ~media.has_subtitle
    /\ subtitles = <<>>
    /\ video_duration > 0
    /\ Len(segments) = 1

\* C7: a run whose speeds are <= 0, whose buffer is < 0 or whose probed
\* duration is <= 0 is rejected: it never enters segment creation and
\* produces no segments.
C7_InvalidParametersRejected ==
    (\/ args.speed_no_sub <= 0
     \/ args.speed_with_sub <= 0
     \/ args.buffer < 0
     \/ media.duration <= 0)
        => /\ pc \notin {"sweep", "info", "render", "done"}
           /\ segments = <<>>

(***************************************************************************)
(* Properties of the catalog builder (SpecParse)                           *)
(***************************************************************************)
\* a timestamp that is not three colon-separated numbers
StampMalformed(ts) == Len(ts) # 3 \/ \E i \in 1..Len(ts) : ts[i].k = "word"

\* a block the builder skips: fewer than 3 lines, or no ' --> ' on line 2
BlockSkipped(b) == Len(b) < 3 \/ Len(b[2]) = 1
BlockKept(b) == ~BlockSkipped(b)

\* a well-shaped block with a malformed start or end timestamp
BlockMalformed(b) ==
    /\ BlockKept(b)
    /\ StampMalformed(b[2][1]) \/ StampMalformed(b[2][2])

\* C8: a block of at least 3 lines with ' --> ' on its second line and a
\* malformed start or end timestamp makes the whole build fail with a
\* subtitle error and no catalog, wherever the block stands.
C8_MalformedTimestampFatal ==
    (pc = "parsed" /\ \E i \in 1..Len(media.srt) : BlockMalformed(media.srt[i]))
        => /\ error = "SubtitleExtractionError"
           /\ subtitles = <<>>

\* C8 witness: two good cues followed by a cue with a malformed timestamp
C8_Witness ==
    /\ pc = "parsed"
    /\ Len(media.srt) = 3
    /\ ~BlockSkipped(media.srt[1]) /\ ~BlockMalformed(media.srt[1])
    /\ ~BlockSkipped(media.srt[2]) /\ ~BlockMalformed(media.srt[2])
    /\ Len(media.srt[1][2]) = 2 /\ Len(media.srt[2][2]) = 2
    /\ BlockMalformed(media.srt[3])
    /\ error = "SubtitleExtractionError"

\* C9: skipped blocks contribute nothing and raise nothing: the build gives
\* the same result as on the text with all such blocks removed.
C9_SkippedBlocksIgnored ==
    pc = "parsed" =>
        LET r == parse_srt_file(SelectSeq(media.srt, BlockKept))
        IN  /\ subtitles = r.val
            /\ error = r.exc

\* C9 witness: a text with a short block and a block without the separator
\* around a good cue, built without error
C9_Witness ==
    /\ pc = "parsed"
    /\ error = ""
    /\ Len(subtitles) = 1
    /\ \E i \in 1..Len(media.srt) : Len(media.srt[i]) < 3
    /\ \E i \in 1..Len(media.srt) :
           Len(media.srt[i]) >= 3 /\ Len(media.srt[i][2]) = 1

\* the intervals of the accepted blocks, in input order
RECURSIVE AcceptedInOrder(_)
AcceptedInOrder(blocks) ==
    IF blocks = <<>>
    THEN <<>>
    ELSE _parse_srt_block(Head(blocks)).val \o AcceptedInOrder(Tail(blocks))

WithStart(s, t) == SelectSeq(s, LAMBDA x : x.start_time = t)

\* C10: the catalog holds exactly the intervals of the accepted blocks, in
\* ascending order of start, those of equal start in their input order.
C10_StableSortedPermutation ==
    (pc = "parsed" /\ error = "") =>
        LET acc == AcceptedInOrder(media.srt)
        IN  /\ Len(subtitles) = Len(acc)
            /\ \A i \in 1..Len(subtitles), j \in 1..Len(subtitles) :
                   i < j => subtitles[i].start_time <= subtitles[j].start_time
            /\ \A i \in 1..Len(acc) :
                   WithStart(subtitles, acc[i].start_time)
                       = WithStart(acc, acc[i].start_time)

\* C10 witness: three accepted cues given out of order, two of them with the
\* same start and different ends
C10_Witness ==
    /\ pc = "parsed"
    /\ error = ""
    /\ Len(subtitles) = 3
    /\ subtitles # AcceptedInOrder(media.srt)
    /\ \E i \in 1..3, j \in 1..3 :
           /\ i < j
           /\ subtitles[i].start_time = subtitles[j].start_time
           /\ subtitles[i].end_time # subtitles[j].end_time

\* C11: every interval of a built catalog has start >= 0 and end > start.
C11_CatalogIntervalsValid ==
    pc = "parsed" =>
        \A i \in 1..Len(subtitles) :
            /\ subtitles[i].start_time >= 0
            /\ subtitles[i].end_time > subtitles[i].start_time

(***************************************************************************)
(* Properties of the timestamp parser (SpecTime)                           *)
(***************************************************************************)
\* component i of a time string is written as a non-negative number, a ','
\* standing for '.' in the seconds component only
ComponentNonNegative(ts, i) ==
    /\ ts[i].k \in (IF i = 3 THEN {"int", "dot", "comma"} ELSE {"int", "dot"})
    /\ ts[i].v >= 0

\* exactly three components, each a non-negative number
StampWellFormed(ts) ==
    /\ Len(ts) = 3
    /\ \A i \in 1..3 : ComponentNonNegative(ts, i)

\* C12: _parse_srt_time raises on every input that is not three
\* non-negative numbers, returns hours*3600 + minutes*60 + seconds on the
\* others, and so never returns a negative value.
C12_TimeParserStrict ==
    pc = "timed" =>
        /\ time_result.ok <=> StampWellFormed(time_arg)
        /\ time_result.ok =>
               /\ time_result.val = time_arg[1].v * SECONDS_PER_HOUR
                                    + time_arg[2].v * SECONDS_PER_MINUTE
                                    + time_arg[3].v
               /\ time_result.val >= 0

C15_FailureTerminal ==
    /\ error # "" => (pc = "exit" /\ exit_status = 1)
    /\ pc = "exit" => (exit_status = 1 /\ ~ENABLED Next)
    /\ \A i \in 1..Len(render_calls) :
           ~render_calls[i].ok => (i = Len(render_calls) /\ concat_calls = 0
                                   /\ exit_status # 0)
    /\ error = "SubtitleExtractionError" =>
           (segments = <<>> /\ render_calls = <<>> /\ concat_calls = 0)
    /\ (error # "" /\ pc = "exit" /\ concat_calls = 0 /\ render_calls = <<>>)
           => segment_files = <<>>
    /\ exit_status = 0 => (error = "" /\ pc = "done")

\* C15 witness: the second render of a run failed, after a successful first
C15_Witness ==
    /\ pc = "exit"
    /\ exit_status = 1
    /\ Len(segments) >= 3
    /\ Len(render_calls) = 2
    /\ render_calls[1].ok
    /\ ~render_calls[2].ok
    /\ concat_calls = 0

(***************************************************************************)
(* Further properties of the scheduler (SpecSched, SpecEquiv)              *)
(***************************************************************************)
\* the padded window of a subtitle, clamped to [0, D]
WindowStart(sub) == IF sub.start_time - subtitle_buffer > 0
                    THEN sub.start_time - subtitle_buffer
                    ELSE 0
WindowEnd(sub) == IF sub.end_time + subtitle_buffer < video_duration
                  THEN sub.end_time + subtitle_buffer
                  ELSE video_duration

IsWithSubtitle(seg) == seg.has_subtitle

\* C14: the with-subtitle segments are, in catalog order, the windows
\* [max(0, start - buffer), min(D, end + buffer)], each inside [0, D]; when
\* the first window clamps to 0 the list opens with that segment.
C14_PaddedWindowsClamped ==
    Scheduled =>
        LET with == SelectSeq(segments, IsWithSubtitle)
        IN  /\ Len(with) = Len(subtitles)
            /\ \A i \in 1..Len(with) :
                   /\ with[i].start_time = WindowStart(subtitles[i])
                   /\ with[i].end_time = WindowEnd(subtitles[i])
                   /\ 0 <= with[i].start_time
                   /\ with[i].start_time <= video_duration
                   /\ 0 <= with[i].end_time
                   /\ with[i].end_time <= video_duration
            /\ (subtitles # <<>> /\ subtitles[1].start_time <= subtitle_buffer)
                   => (segments[1].has_subtitle /\ segments[1].start_time = 0)

\* C16: no no-subtitle segment of the returned list overlaps the padded
\* window of any subtitle of the catalog.
C16_FastSegmentsAvoidWindows ==
    Scheduled =>
        \A i \in 1..Len(segments), j \in 1..Len(subtitles) :
            ~segments[i].has_subtitle =>
                ~(/\ segments[i].start_time < WindowEnd(subtitles[j])
                  /\ WindowStart(subtitles[j]) < segments[i].end_time)

\* C17: main.py's scheduler and processor.py's scheduler return the same
\* list on the same catalog, buffer, duration and speeds.
C17_SameAsLegacy ==
    Scheduled => segments = legacy_segments

\* C17 witness: both have returned a list of three segments or more in which
\* a with-subtitle segment starts before the end of the one before it
C17_Witness ==
    /\ Scheduled
    /\ Len(legacy_segments) >= 3
    /\ \E i \in 1..(Len(segments) - 1) :
           segments[i + 1].start_time < segments[i].end_time

====
